---- MODULE Spec2Model ----
(***************************************************************************)
(* Document rasterization pipeline of the document-management assistant:   *)
(* src-tauri/src/document_processor/selector.rs (prepare_document and the  *)
(* helpers it drives).                                                     *)
(*                                                                         *)
(* A path is [root, comps]: comps is the sequence of its components, and   *)
(* a component (a file or directory name) is the non-empty sequence of the *)
(* dot-free segments that its dots separate: "report.pdf" is               *)
(* <<"report", "pdf">>, ".hidden" is <<"", "hidden">>, "." is <<"", "">>   *)
(* and ".." is <<"", "", "">>.  An Option is a sequence of length 0 or 1.  *)
(***************************************************************************)
EXTENDS Integers, Sequences, FiniteSets, TLC

(* ---------------------------- bounds ----------------------------------- *)
MaxPages == 3
MaxRuns == 3
MaxNameSegs == 4
CastSpan == 60

(* ----------------------- program constants ----------------------------- *)
IMAGE_DENSITY == "150"
IMAGE_RESIZE == "1000x1000"
IMAGE_FORMAT == "webp"
U16Bits == 16

(* ------------------------- std::path model ----------------------------- *)
None == <<>>
Some(x) == <<x>>

CurDir == <<"", "">>
ParentDir == <<"", "", "">>

RECURSIVE JoinWith(_, _)
JoinWith(segs, sep) ==
  IF Len(segs) = 0 THEN ""
  ELSE IF Len(segs) = 1 THEN segs[1]
  ELSE segs[1] \o sep \o JoinWith(Tail(segs), sep)

NameStr(name) == JoinWith(name, ".")

Display(p) ==
  (IF p.root THEN "/" ELSE "")
    \o JoinWith([i \in 1..Len(p.comps) |-> NameStr(p.comps[i])], "/")

\* Path::components keeps a "." component only at the start of a relative path
KeptIdx(p) ==
  {i \in 1..Len(p.comps) : ~(p.comps[i] = CurDir /\ (i > 1 \/ p.root))}

LastIdx(p) ==
  IF KeptIdx(p) = {} THEN 0
  ELSE CHOOSE i \in KeptIdx(p) : \A j \in KeptIdx(p) : j <= i

file_name(p) ==
  IF LastIdx(p) = 0 THEN None
  ELSE IF p.comps[LastIdx(p)] \in {CurDir, ParentDir} THEN None
  ELSE Some(p.comps[LastIdx(p)])

Front(s) == SubSeq(s, 1, Len(s) - 1)

\* [before, after], each an Option
rsplit_file_at_dot(file) ==
  IF file = ParentDir THEN [before |-> Some(file), after |-> None]
  ELSE IF Len(file) = 1 THEN [before |-> None, after |-> Some(file)]
  ELSE IF Front(file) = <<"">> THEN [before |-> Some(file), after |-> None]
  ELSE [before |-> Some(Front(file)), after |-> Some(<<file[Len(file)]>>)]

file_stem(p) ==
  IF file_name(p) = None THEN None
  ELSE LET s == rsplit_file_at_dot(file_name(p)[1])
       IN  IF s.before # None THEN s.before ELSE s.after

extension(p) ==
  IF file_name(p) = None THEN None
  ELSE LET s == rsplit_file_at_dot(file_name(p)[1])
       IN  IF s.before # None THEN s.after ELSE None

\* the buffer is cut right after the file stem, then "." and ext are appended
with_extension(p, ext) ==
  IF file_stem(p) = None THEN p
  ELSE [p EXCEPT !.comps =
          Append(SubSeq(p.comps, 1, LastIdx(p) - 1),
                 file_stem(p)[1] \o (IF ext = "" THEN <<>> ELSE <<ext>>))]

\* Path::parent / PathBuf::pop: drop the last component and what trails it
pop(p) ==
  LET rest == [p EXCEPT !.comps = SubSeq(p.comps, 1, LastIdx(p) - 1)]
  IN  [rest EXCEPT !.comps = SubSeq(rest.comps, 1, LastIdx(rest))]

join(p, name) == [p EXCEPT !.comps = Append(p.comps, name)]

with_file_name(p, name) ==
  IF file_name(p) # None THEN join(pop(p), name) ELSE join(p, name)

\* format!("{}_data", file_name): the suffix lands on the last segment
DataSuffixed(name) ==
  [name EXCEPT ![Len(name)] = name[Len(name)] \o "_data"]

create_output_paths(path) ==
  LET path_without_ext == with_extension(path, "")
      fname == file_name(path_without_ext)
  IN  IF fname = None
      THEN [panicked |-> TRUE, data_dir |-> path, output_file_name |-> path]
      ELSE LET data_dir == with_file_name(path_without_ext, DataSuffixed(fname[1]))
           IN  [panicked |-> FALSE,
                data_dir |-> data_dir,
                output_file_name |-> with_extension(join(data_dir, <<"page">>), IMAGE_FORMAT)]


(* --------------------------- the world --------------------------------- *)
Path(root, comps) == [root |-> root, comps |-> comps]

\* documents the command can be invoked on; the last one has no file name
ReportPdf == Path(TRUE, << <<"docs">>, <<"report", "pdf">> >>)
RootPath == Path(TRUE, << >>)
LoadableDocs == {ReportPdf}
DocPaths == LoadableDocs \cup {RootPath}

CacheDirs ==
  {Display(create_output_paths(p).data_dir) :
     p \in {q \in DocPaths : ~create_output_paths(q).panicked}}

\* files somebody else may drop into a cache directory
StrayNames == {<<"cover", "webp">>, <<"notes", "txt">>}

ExitCodes == {Some(1), Some(2), None}
Stderrs == {"magick: unable to open image"}

NoFiles == [n \in {} |-> 0]
AbsentDir == [exists |-> FALSE, files |-> NoFiles]

VARIABLES
  fs,          \* dir -> [exists, files], files: name -> content
  docPages,    \* the page count of each source document
  pc,          \* where the current run of preparation stands
  path,        \* its argument
  data_dir,    \* its locals
  page_count,
  page,
  cachePath,   \* which branch the cache check took
  trace,       \* rasterizer invocations and emitted events, in order
  result,      \* what prepare_document returned
  runs,        \* number of runs started
  prev,        \* how the previous run ended
  startFs,     \* the filesystem when the current run started
  dirty,       \* somebody touched a document or a cache since the last run
  running,     \* page indices whose rasterizer process has not terminated
  ui           \* the state of the Hero component and of what feeds it

vars == <<fs, docPages, pc, path, data_dir, page_count, page, cachePath,
          trace, result, runs, prev, startFs, dirty, running, ui>>

Terminal == {"Idle", "Done", "Error", "Panicked", "Killed"}

NoResult == [tag |-> "None"]
Ok(v) == [tag |-> "Ok", value |-> v]
Err(msg) == [tag |-> "Err", error |-> msg]

(* ------------------------- small helpers ------------------------------- *)
\* `page_number as u16`
AsU16(n) == n % (2 ^ U16Bits)

\* format!("{}.{}", page, IMAGE_FORMAT)
PageFile(n) == <<ToString(n), IMAGE_FORMAT>>

\* e.path().extension() == Some(OsStr::new(IMAGE_FORMAT))
IsWebp(dir, name) == extension(join(dir, name)) = Some(<<IMAGE_FORMAT>>)

WebpFiles(dir, files) == {n \in DOMAIN files : IsWebp(dir, n)}

\* count_webp_files without its extension filter
count_all_files(dir, files) == Cardinality(DOMAIN files)


count_webp_files(dir, files) == Cardinality(WebpFiles(dir, files))

create_magick_args(input, output) ==
  <<"-density", IMAGE_DENSITY, input, "-resize", IMAGE_RESIZE,
    "-scene", "1", "+adjoin", output>>

\* the page selector built from the 1-based page number
PageArg_OneBased(input, i) == input \o "[" \o ToString(i + 1) \o "]"

\* format!("{}[{}]", input, page)
PageArg(input, i) == input \o "[" \o ToString(i) \o "]"

Dir == fs[Display(data_dir)]

WithFile(files, name, data) ==
  [n \in DOMAIN files \cup {name} |-> IF n = name THEN data ELSE files[n]]

WithoutFile(files, name) == [n \in DOMAIN files \ {name} |-> files[n]]

\* the event carrying the source document's path
ImageLoaded_SourcePath(page_number, file_path, buffer) ==
  [page_number |-> AsU16(page_number),
   path |-> Display(path),
   data |-> buffer]


ImageLoaded(page_number, file_path, buffer) ==
  [page_number |-> AsU16(page_number),
   path |-> Display(file_path),
   data |-> buffer]

Fail(msg) ==
  /\ pc' = "Error"
  /\ result' = Err(msg)


\* the component is not mounted
NoUi == [mounted |-> FALSE]

(* ----------------------------- Init ------------------------------------ *)
Init ==
  /\ fs = [d \in CacheDirs |-> AbsentDir]
  /\ docPages \in [LoadableDocs -> 0..MaxPages]
  /\ pc = "Idle"
  /\ path = RootPath
  /\ data_dir = RootPath
  /\ page_count = 0
  /\ page = 0
  /\ cachePath = "None"
  /\ trace = <<>>
  /\ result = NoResult
  /\ runs = 0
  /\ prev = [outcome |-> "Idle", path |-> RootPath, clean |-> FALSE]
  /\ startFs = fs
  /\ dirty = FALSE
  /\ running = {}
  /\ ui = NoUi

(* ------------------------ prepare_document ----------------------------- *)
\* the command is invoked with a path; no run is in progress
StartRun(p) ==
  /\ pc \in Terminal
  /\ runs < MaxRuns
  /\ pc' = "Start"
  /\ path' = p
  /\ data_dir' = RootPath
  /\ page_count' = 0
  /\ page' = 0
  /\ cachePath' = "None"
  /\ trace' = <<>>
  /\ result' = NoResult
  /\ runs' = runs + 1
  /\ prev' = [outcome |-> pc, path |-> path, clean |-> ~dirty]
  /\ startFs' = fs
  /\ dirty' = FALSE
  /\ UNCHANGED <<fs, docPages>>
  /\ UNCHANGED <<running, ui>>

\* let (data_dir, _output_file_name) = create_output_paths(&path)?;
Resolve ==
  /\ pc = "Start"
  /\ LET r == create_output_paths(path)
     IN  IF r.panicked
         THEN /\ pc' = "Panicked"
              /\ UNCHANGED data_dir
         ELSE /\ pc' = "Resolved"
              /\ data_dir' = r.data_dir
  /\ UNCHANGED <<fs, docPages, path, page_count, page, cachePath, trace,
                 result, runs, prev, startFs, dirty>>
  /\ UNCHANGED <<running, ui>>

\* preparation creating the data directory before it loads the document
CountPages_AfterCreateDir ==
  /\ pc = "Resolved"
  /\ \/ /\ path \in DOMAIN docPages
        /\ pc' = "Counted"
        /\ page_count' = docPages[path]
        /\ UNCHANGED <<result, fs>>
     \/ /\ Fail("Failed to load PDF document")
        /\ fs' = [fs EXCEPT ![Display(data_dir)].exists = TRUE]
        /\ UNCHANGED page_count
  /\ UNCHANGED <<docPages, path, data_dir, page, cachePath, trace,
                 runs, prev, startFs, dirty, running, ui>>

\* let page_count = get_page_count(&path)?;
CountPages ==
  /\ pc = "Resolved"
  /\ \/ /\ path \in DOMAIN docPages
        /\ pc' = "Counted"
        /\ page_count' = docPages[path]
        /\ UNCHANGED result
     \/ /\ Fail("Failed to load PDF document")
        /\ UNCHANGED page_count
  /\ UNCHANGED <<fs, docPages, path, data_dir, page, cachePath, trace,
                 runs, prev, startFs, dirty>>
  /\ UNCHANGED <<running, ui>>

\* data_dir.exists() is false: fs::create_dir, then process_pages
CreateDataDir ==
  /\ pc = "Counted"
  /\ ~Dir.exists
  /\ \/ /\ fs' = [fs EXCEPT ![Display(data_dir)].exists = TRUE]
        /\ pc' = "Rendering"
        /\ page' = 0
        /\ cachePath' = "Absent"
        /\ UNCHANGED result
     \/ /\ Fail("Failed to create data directory")
        /\ UNCHANGED <<fs, page, cachePath>>
  /\ UNCHANGED <<docPages, path, data_dir, page_count, trace, runs, prev,
                 startFs, dirty>>
  /\ UNCHANGED <<running, ui>>

\* handle_existing_data_dir rendering over a mismatched cache without
\* remove_existing_webp_files
InspectCache_NoRemoval ==
  /\ pc = "Counted"
  /\ Dir.exists
  /\ \/ /\ IF count_webp_files(data_dir, Dir.files) = page_count
           THEN /\ cachePath' = "Complete"
                /\ pc' = "Replaying"
                /\ page' = 1
           ELSE /\ cachePath' = "Mismatched"
                /\ pc' = "Rendering"
                /\ page' = 0
        /\ UNCHANGED result
     \/ /\ Fail("Failed to read data directory")
        /\ UNCHANGED <<page, cachePath>>
  /\ UNCHANGED <<fs, docPages, path, data_dir, page_count, trace, runs,
                 prev, startFs, dirty>>
  /\ UNCHANGED <<running, ui>>

\* handle_existing_data_dir: count the webp files and pick the branch
InspectCache ==
  /\ pc = "Counted"
  /\ Dir.exists
  /\ \/ /\ IF count_webp_files(data_dir, Dir.files) = page_count
           THEN /\ cachePath' = "Complete"
                /\ pc' = "Replaying"
                /\ page' = 1
           ELSE /\ cachePath' = "Mismatched"
                /\ pc' = "Removing"
                /\ page' = 0
        /\ UNCHANGED result
     \/ /\ Fail("Failed to read data directory")
        /\ UNCHANGED <<page, cachePath>>
  /\ UNCHANGED <<fs, docPages, path, data_dir, page_count, trace, runs,
                 prev, startFs, dirty>>
  /\ UNCHANGED <<running, ui>>

\* remove_existing_webp_files returning before every webp file is gone
RemoveWebp_Partial ==
  /\ pc = "Removing"
  /\ \/ /\ \E n \in WebpFiles(data_dir, Dir.files) :
             fs' = [fs EXCEPT ![Display(data_dir)].files = WithoutFile(@, n)]
        /\ UNCHANGED <<pc, result>>
     \/ /\ \E msg \in {"Failed to read data directory",
                       "Failed to remove existing webp file"} : Fail(msg)
        /\ UNCHANGED fs
     \/ /\ pc' = "Rendering"
        /\ UNCHANGED <<fs, result>>
  /\ UNCHANGED <<docPages, path, data_dir, page_count, page, cachePath,
                 trace, runs, prev, startFs, dirty>>
  /\ UNCHANGED <<running, ui>>

\* remove_existing_webp_files: read_dir yields the entries in no fixed order
RemoveWebp ==
  /\ pc = "Removing"
  /\ \/ /\ \E n \in WebpFiles(data_dir, Dir.files) :
             fs' = [fs EXCEPT ![Display(data_dir)].files = WithoutFile(@, n)]
        /\ UNCHANGED <<pc, result>>
     \/ /\ \E msg \in {"Failed to read data directory",
                       "Failed to remove existing webp file"} : Fail(msg)
        /\ UNCHANGED fs
     \/ /\ WebpFiles(data_dir, Dir.files) = {}
        /\ pc' = "Rendering"
        /\ UNCHANGED <<fs, result>>
  /\ UNCHANGED <<docPages, path, data_dir, page_count, page, cachePath,
                 trace, runs, prev, startFs, dirty>>
  /\ UNCHANGED <<running, ui>>

OutputPath(i) == join(data_dir, PageFile(i + 1))

\* output.status.success()
success(status) == status = Some(0)

MagickCall(i, status, stderr) ==
  [op |-> "magick",
   args |-> create_magick_args(PageArg(Display(path), i), Display(OutputPath(i))),
   status |-> status,
   stderr |-> stderr]

Emitted(e) == [op |-> "emit", event |-> "image", payload |-> e]

\* the rasterizer ran for page index i and wrote its output on success
Rendered(i) == [src |-> PageArg(Display(path), i), run |-> runs]

\* run_magick starting the rasterizer for two pages at once
SpawnMagick_Prefetch ==
  /\ pc = "Rendering"
  /\ page < page_count
  /\ \/ /\ running' = running \cup {i \in {page, page + 1} : i < page_count}
        /\ pc' = "Awaiting"
        /\ UNCHANGED result
     \/ /\ Fail("Failed to run magick command")
        /\ UNCHANGED running
  /\ UNCHANGED <<fs, docPages, path, data_dir, page_count, page, cachePath,
                 trace, runs, prev, startFs, dirty, ui>>

\* process_pages, first half of the loop body: run_magick spawns magick.exe
\* for the page
SpawnMagick ==
  /\ pc = "Rendering"
  /\ page < page_count
  /\ \/ /\ running' = running \cup {page}
        /\ pc' = "Awaiting"
        /\ UNCHANGED result
     \/ /\ Fail("Failed to run magick command")
        /\ UNCHANGED running
  /\ UNCHANGED <<fs, docPages, path, data_dir, page_count, page, cachePath,
                 trace, runs, prev, startFs, dirty, ui>>

\* run_magick reporting a fixed code instead of output.status.code()
RunMagick_CodeLost ==
  /\ pc = "Awaiting"
  /\ running' = running \ {page}
  /\ \/ \E status \in {Some(0)} \cup ExitCodes, stderr \in Stderrs :
          /\ trace' = Append(trace, MagickCall(page, status,
                                               IF success(status) THEN "" ELSE stderr))
          /\ IF success(status)
             THEN /\ fs' = [fs EXCEPT ![Display(data_dir)].files =
                              WithFile(@, PageFile(page + 1), Rendered(page))]
                  /\ pc' = "Emitting"
                  /\ UNCHANGED result
             ELSE /\ pc' = "Error"
                  /\ result' = [tag |-> "Err",
                                error |-> "Magick command failed",
                                code |-> 1,
                                stderr |-> stderr]
                  /\ UNCHANGED fs
     \/ /\ Fail("Failed to run magick command")
        /\ UNCHANGED <<fs, trace>>
  /\ UNCHANGED <<docPages, path, data_dir, page_count, page, cachePath,
                 runs, prev, startFs, dirty>>
  /\ UNCHANGED <<ui>>

\* run_magick awaiting the output of the process it spawned
RunMagick ==
  /\ pc = "Awaiting"
  /\ running' = running \ {page}
  /\ \/ \E status \in {Some(0)} \cup ExitCodes, stderr \in Stderrs :
          /\ trace' = Append(trace, MagickCall(page, status,
                                               IF success(status) THEN "" ELSE stderr))
          /\ IF success(status)
             THEN /\ fs' = [fs EXCEPT ![Display(data_dir)].files =
                              WithFile(@, PageFile(page + 1), Rendered(page))]
                  /\ pc' = "Emitting"
                  /\ UNCHANGED result
             ELSE /\ pc' = "Error"
                  /\ result' = [tag |-> "Err",
                                error |-> "Magick command failed",
                                code |-> IF status = None THEN 1 ELSE status[1],
                                stderr |-> stderr]
                  /\ UNCHANGED fs
     \/ /\ Fail("Failed to run magick command")
        /\ UNCHANGED <<fs, trace>>
  /\ UNCHANGED <<docPages, path, data_dir, page_count, page, cachePath,
                 runs, prev, startFs, dirty>>
  /\ UNCHANGED <<ui>>

\* send_webp_image(app, path, page_number), as a step of the run: on success
\* the event is appended and the run moves to `next`
SendWebpImage(file, page_number, next) ==
  \/ /\ file \in DOMAIN Dir.files
     /\ trace' = Append(trace, Emitted(ImageLoaded(page_number,
                                                   join(data_dir, file),
                                                   Dir.files[file])))
     /\ pc' = next
     /\ page' = page + 1
     /\ UNCHANGED result
  \/ /\ \E msg \in {"io error", "emit failed"} : Fail(msg)
     /\ UNCHANGED <<trace, page>>

\* process_pages sending the 0-based index as the page number
SendRendered_ZeroBased ==
  /\ pc = "Emitting"
  /\ SendWebpImage(PageFile(page + 1), page, "Rendering")
  /\ UNCHANGED <<fs, docPages, path, data_dir, page_count, cachePath, runs,
                 prev, startFs, dirty>>
  /\ UNCHANGED <<running, ui>>

\* process_pages, second half of the loop body
SendRendered ==
  /\ pc = "Emitting"
  /\ SendWebpImage(PageFile(page + 1), page + 1, "Rendering")
  /\ UNCHANGED <<fs, docPages, path, data_dir, page_count, cachePath, runs,
                 prev, startFs, dirty>>
  /\ UNCHANGED <<running, ui>>

\* emit_existing_images: for page in 1..=page_count
ReplayCached ==
  /\ pc = "Replaying"
  /\ page <= page_count
  /\ SendWebpImage(PageFile(page), page, "Replaying")
  /\ UNCHANGED <<fs, docPages, path, data_dir, page_count, cachePath, runs,
                 prev, startFs, dirty>>
  /\ UNCHANGED <<running, ui>>

\* both loops are over: Ok(path.display().to_string())
Finish ==
  /\ \/ pc = "Rendering" /\ page = page_count
     \/ pc = "Replaying" /\ page > page_count
  /\ pc' = "Done"
  /\ result' = Ok(Display(path))
  /\ UNCHANGED <<fs, docPages, path, data_dir, page_count, page, cachePath,
                 trace, runs, prev, startFs, dirty>>
  /\ UNCHANGED <<running, ui>>

(* -------------------------- environment -------------------------------- *)
\* the host application is terminated while a run is in progress
Kill ==
  /\ pc \notin Terminal
  /\ pc' = "Killed"
  /\ running' = {}
  /\ UNCHANGED <<fs, docPages, path, data_dir, page_count, page, cachePath,
                 trace, result, runs, prev, startFs, dirty>>
  /\ UNCHANGED <<ui>>

\* a source document is replaced by one with another page count
EditDocument(d, n) ==
  /\ pc \in Terminal
  /\ runs < MaxRuns
  /\ docPages[d] # n
  /\ docPages' = [docPages EXCEPT ![d] = n]
  /\ dirty' = TRUE
  /\ UNCHANGED <<fs, pc, path, data_dir, page_count, page, cachePath, trace,
                 result, runs, prev, startFs>>
  /\ UNCHANGED <<running, ui>>

\* somebody else puts a file into an existing cache directory
ExternalWrite(d, name) ==
  /\ pc \in Terminal
  /\ runs < MaxRuns
  /\ fs[d].exists
  /\ name \notin DOMAIN fs[d].files
  /\ fs' = [fs EXCEPT ![d].files = WithFile(@, name, [src |-> "external", run |-> 0])]
  /\ dirty' = TRUE
  /\ UNCHANGED <<docPages, pc, path, data_dir, page_count, page, cachePath,
                 trace, result, runs, prev, startFs>>
  /\ UNCHANGED <<running, ui>>

Next ==
  \/ \E p \in DocPaths : StartRun(p)
  \/ Resolve
  \/ CountPages
  \/ CreateDataDir
  \/ InspectCache
  \/ RemoveWebp
  \/ SpawnMagick
  \/ RunMagick
  \/ SendRendered
  \/ ReplayCached
  \/ Finish
  \/ Kill
  \/ \E d \in LoadableDocs, n \in 0..MaxPages : EditDocument(d, n)
  \/ \E d \in CacheDirs, name \in StrayNames : ExternalWrite(d, name)

Spec == Init /\ [][Next]_vars


(* ---- the pipeline when nobody else writes into the cache directory ----- *)
NextNoStray ==
  \/ \E p \in DocPaths : StartRun(p)
  \/ Resolve
  \/ CountPages
  \/ CreateDataDir
  \/ InspectCache
  \/ RemoveWebp
  \/ SpawnMagick
  \/ RunMagick
  \/ SendRendered
  \/ ReplayCached
  \/ Finish
  \/ Kill
  \/ \E d \in LoadableDocs, n \in 0..MaxPages : EditDocument(d, n)

SpecNoStray == Init /\ [][NextNoStray]_vars

\* ... and when, besides, no directory operation fails: runs abort only
\* through the rasterizer, the document load, the delivery or the host
CreateDataDirOk == CreateDataDir /\ pc' # "Error"
InspectCacheOk == InspectCache /\ pc' # "Error"
RemoveWebpOk == RemoveWebp /\ pc' # "Error"

NextPrefix ==
  \/ \E p \in DocPaths : StartRun(p)
  \/ Resolve
  \/ CountPages
  \/ CreateDataDirOk
  \/ InspectCacheOk
  \/ RemoveWebpOk
  \/ SpawnMagick
  \/ RunMagick
  \/ SendRendered
  \/ ReplayCached
  \/ Finish
  \/ Kill
  \/ \E d \in LoadableDocs, n \in 0..MaxPages : EditDocument(d, n)

SpecPrefix == Init /\ [][NextPrefix]_vars

(* ------------- create_output_paths on its own, over many paths ---------- *)
Segments == {"", "report", "pdf"}

Names ==
  UNION {[1..k -> Segments] : k \in 1..MaxNameSegs} \ {<<"">>}

InputDirs == {Path(TRUE, << >>), Path(TRUE, << <<"docs">> >>), Path(FALSE, << >>)}

PathInputs == InputDirs \cup {join(d, n) : d \in InputDirs, n \in Names}

InitPath ==
  /\ fs = [d \in CacheDirs |-> AbsentDir]
  /\ docPages = [d \in LoadableDocs |-> 0]
  /\ pc = "Start"
  /\ path \in PathInputs
  /\ data_dir = RootPath
  /\ page_count = 0
  /\ page = 0
  /\ cachePath = "None"
  /\ trace = <<>>
  /\ result = NoResult
  /\ runs = 1
  /\ prev = [outcome |-> "Idle", path |-> RootPath, clean |-> FALSE]
  /\ startFs = fs
  /\ dirty = FALSE
  /\ running = {}
  /\ ui = NoUi

NextPath == Resolve

SpecPath == InitPath /\ [][NextPath]_vars


(* ------- send_webp_image on its own, on pages around the u16 limit ------ *)
CastPages == (2 ^ U16Bits - CastSpan)..(2 ^ U16Bits + CastSpan)

ReportDataDir == create_output_paths(ReportPdf).data_dir

\* a run on a long document stands in one of its two loops, at a page whose
\* file is on disk
InitCast ==
  /\ page \in CastPages
  /\ pc \in {"Emitting", "Replaying"}
  /\ cachePath = (IF pc = "Emitting" THEN "Absent" ELSE "Complete")
  /\ page_count = 2 ^ U16Bits + CastSpan + 1
  /\ docPages = [d \in LoadableDocs |-> page_count]
  /\ path = ReportPdf
  /\ data_dir = ReportDataDir
  /\ fs = [d \in CacheDirs |->
             [exists |-> TRUE,
              files |-> [n \in {PageFile(page), PageFile(page + 1)} |->
                           [src |-> "rendered", run |-> 1]]]]
  /\ trace = <<>>
  /\ result = NoResult
  /\ runs = 1
  /\ prev = [outcome |-> "Idle", path |-> RootPath, clean |-> FALSE]
  /\ startFs = fs
  /\ dirty = FALSE
  /\ running = {}
  /\ ui = NoUi

NextCast ==
  \/ SendRendered
  \/ ReplayCached

SpecCast == InitCast /\ [][NextCast]_vars

(* ======================= properties of the pipeline ==================== *)
IsEmit(t) == t.op = "emit"
IsCall(t) == t.op = "magick"

\* the events the subscriber received in the current run, and their numbers
Events == SelectSeq(trace, IsEmit)
PageNumbers == [i \in 1..Len(Events) |-> Events[i].payload.page_number]

\* the rasterizer invocations of the current run
Calls == SelectSeq(trace, IsCall)

DirKey == Display(data_dir)
StartDir == startFs[DirKey]
LeftCount == Cardinality({n \in DOMAIN StartDir.files : n[Len(n)] = "webp" /\ Len(n) > 1
                                                        /\ Front(n) # <<"">>})
NumberedFiles(n) == {<<ToString(i), "webp">> : i \in 1..n}
WebpNow == {n \in DOMAIN Dir.files : Len(n) > 1 /\ n[Len(n)] = "webp" /\ Front(n) # <<"">>}

Resolved == pc \notin {"Idle", "Start", "Panicked"} /\ ~create_output_paths(path).panicked

AfterCleanSuccess ==
  /\ runs >= 2
  /\ pc \notin {"Idle", "Start", "Panicked"}
  /\ prev.outcome = "Done"
  /\ prev.clean
  /\ prev.path = path
  /\ ~dirty

\* C2: a run that follows a successful run on the same unchanged document
\* leaves the cache directory as the first run left it, invokes the
\* rasterizer zero times and takes the cache-Complete path.
C2_Idempotence ==
  AfterCleanSuccess =>
    /\ fs = startFs
    /\ Calls = <<>>
    /\ cachePath \in {"None", "Complete"}

C2_Witness ==
  /\ AfterCleanSuccess
  /\ pc = "Done"
  /\ page_count >= 2
  /\ Len(Events) = page_count
  /\ Calls = <<>>

\* C3: when the run starts on an existing cache directory whose number N of
\* rendered-page files differs from the page count M and ends without error,
\* none of the N old files is left and the rendered-page files are exactly
\* the M files 1..M, all written by this run.
C3_InvalidationComplete ==
  (pc = "Done" /\ ~dirty /\ StartDir.exists /\ LeftCount # page_count) =>
    /\ WebpNow = NumberedFiles(page_count)
    /\ \A n \in WebpNow : Dir.files[n].run = runs

C3_Witness ==
  /\ pc = "Done"
  /\ ~dirty
  /\ StartDir.exists
  /\ LeftCount # page_count
  /\ LeftCount >= 2
  /\ page_count >= 1
  /\ <<"cover", "webp">> \in DOMAIN StartDir.files

\* the run failed in the rasterizer and nothing has happened since
MagickFailed ==
  /\ ~dirty
  /\ result.tag = "Err"
  /\ result.error = "Magick command failed"

\* C4: when the rasterizer exits with a non-success status on page k of a
\* fresh render, the run is in Error, the events delivered are those of pages
\* 1..k-1, the rasterizer was invoked for pages 1..k and no other, the files
\* of pages 1..k-1 written by this run are on disk, and the error carries the
\* exit code and the stderr text of the failed invocation.
C4_FatalRasterizerFailure ==
  MagickFailed =>
    LET k == Len(Calls)
        last == Calls[k]
    IN  /\ pc = "Error"
        /\ k >= 1
        /\ PageNumbers = [i \in 1..(k - 1) |-> i]
        /\ \A i \in 1..k :
             Calls[i].args[3] = Display(path) \o "[" \o ToString(i - 1) \o "]"
        /\ \A i \in 1..(k - 1) :
             /\ <<ToString(i), "webp">> \in DOMAIN Dir.files
             /\ Dir.files[<<ToString(i), "webp">>].run = runs
        /\ last.status # Some(0)
        /\ last.status # None => result.code = last.status[1]
        /\ result.stderr = last.stderr

C4_Witness ==
  /\ MagickFailed
  /\ Len(Calls) = 3
  /\ Len(Events) = 2
  /\ result.code = 2


\* C5 (as claimed): every run ends in Done or in Error, a run that returned
\* success delivered the events 1..page_count, and a failing step, path
\* resolution included, makes the run return an error.
C5_NoPartialSuccess ==
  /\ pc # "Panicked"
  /\ result.tag = "Ok" <=> pc = "Done"
  /\ result.tag = "Err" <=> pc = "Error"
  /\ pc = "Done" => PageNumbers = [i \in 1..page_count |-> i]

AfterAbort ==
  /\ runs >= 2
  /\ prev.outcome \in {"Error", "Killed", "Panicked"}
  /\ prev.clean
  /\ prev.path = path
  /\ ~dirty
  /\ cachePath # "None"

\* C7 (as claimed): the run after a run that did not reach Done, on a document
\* that has pages, never takes the cache-Complete path.
C7_AlwaysRegenerates ==
  (AfterAbort /\ page_count >= 1) => cachePath # "Complete"

\* C7 (amended): the run after a run that did not reach Done and left a
\* number of rendered-page files different from the page count detects the
\* mismatch, has deleted every file left behind before it renders, and
\* renders from index 0; when the aborted run left exactly page-count files
\* the run takes the cache-Complete path.
C7_RegeneratesOnMismatch ==
  (AfterAbort /\ StartDir.exists) =>
    IF LeftCount = page_count
    THEN cachePath = "Complete"
    ELSE /\ cachePath = "Mismatched"
         /\ pc \in {"Rendering", "Awaiting", "Emitting", "Done"} =>
              /\ \A n \in WebpNow : Dir.files[n].run = runs
              /\ \A i \in 1..Len(Calls) :
                   Calls[i].args[3] = Display(path) \o "[" \o ToString(i - 1) \o "]"
              /\ pc = "Done" => Len(Calls) = page_count

C7_Witness ==
  /\ AfterAbort
  /\ StartDir.exists
  /\ LeftCount = 2
  /\ page_count = 3
  /\ cachePath = "Mismatched"
  /\ pc = "Done"

\* the path is <dir>/<stem>.<extension> with a non-empty stem
HasStemAndExtension(p) ==
  /\ Len(p.comps) >= 1
  /\ LET name == p.comps[Len(p.comps)]
     IN  /\ Len(name) >= 2
         /\ Front(name) # <<"">>

\* <dir>/<stem>_data
ExpectedDataDir(p) ==
  LET name == p.comps[Len(p.comps)]
      stem == Front(name)
  IN  [root |-> p.root,
       comps |-> Front(p.comps) \o << [stem EXCEPT ![Len(stem)] = @ \o "_data"] >>]

\* C8 (as claimed): for a source path <dir>/<stem>.<extension> the cache
\* directory is <dir>/<stem>_data.
C8_FixedLayout ==
  (pc # "Start" /\ HasStemAndExtension(path)) =>
    /\ pc = "Resolved"
    /\ data_dir = ExpectedDataDir(path)

C10_InvalidPath ==
  (pc \notin {"Idle", "Start"} /\ file_name(path) = None) =>
    /\ pc = "Error"
    /\ result = Err("InvalidPath")
    /\ fs = startFs
    /\ Events = <<>>


\* two paths name the same file when their components agree (Path's ==)
SamePath(p, q) ==
  /\ p.root = q.root
  /\ [i \in 1..Cardinality(KeptIdx(p)) |->
        p.comps[CHOOSE k \in KeptIdx(p) : Cardinality({j \in KeptIdx(p) : j <= k}) = i]]
     = [i \in 1..Cardinality(KeptIdx(q)) |->
        q.comps[CHOOSE k \in KeptIdx(q) : Cardinality({j \in KeptIdx(q) : j <= k}) = i]]

\* C11 (as claimed): two distinct source paths never resolve to the same
\* cache directory.
C11_CollisionFree ==
  pc = "Resolved" =>
    \A q \in PathInputs :
      (~SamePath(q, path) /\ ~create_output_paths(q).panicked) =>
        ~SamePath(create_output_paths(q).data_dir, data_dir)


\* C12: at most one rasterizer process runs at any time; while the process
\* for page index i runs, the processes of the pages before it have
\* terminated and their events 1..i have been emitted, the last of them
\* right before; no process is left running outside that wait.
C12_Sequential ==
  /\ Cardinality(running) <= 1
  /\ pc # "Awaiting" => running = {}
  /\ pc = "Awaiting" =>
       /\ running = {page}
       /\ Len(Calls) = page
       /\ \A i \in 1..Len(Calls) : Calls[i].status = Some(0)
       /\ PageNumbers = [i \in 1..page |-> i]
       /\ page >= 1 => trace[Len(trace)].op = "emit"

C12_Witness ==
  /\ pc = "Awaiting"
  /\ running = {2}
  /\ Len(Events) = 2


\* the files of the directory the run started on that follow the
\* rendered-page convention <page_number>.webp
StartPageFiles ==
  DOMAIN StartDir.files \cap {<<ToString(i), "webp">> : i \in 1..(MaxPages + 1)}

\* C13 (as claimed): the cache is treated as Absent iff the directory does
\* not exist, as Complete iff it exists and the number of its files named
\* <page_number>.webp equals the page count, as Mismatched otherwise; only
\* Complete replays, and Complete never renders.
C13_Classification ==
  (cachePath # "None" /\ ~dirty) =>
    /\ cachePath = "Absent" <=> ~StartDir.exists
    /\ cachePath = "Complete" <=>
         (StartDir.exists /\ Cardinality(StartPageFiles) = page_count)
    /\ pc = "Replaying" => cachePath = "Complete"
    /\ cachePath = "Complete" => Calls = <<>>


LoadFailed ==
  /\ ~dirty
  /\ result = Err("Failed to load PDF document")

\* C14: when get_page_count fails the run is in Error with the load error,
\* the filesystem is as the run found it (no directory created, no file
\* written or deleted), no rasterizer was invoked or is running, no event
\* was emitted and the cache was not inspected.
C14_LoadFailureLeavesAllAlone ==
  LoadFailed =>
    /\ pc = "Error"
    /\ fs = startFs
    /\ trace = <<>>
    /\ running = {}
    /\ cachePath = "None"

\* the load failed over a cache that holds rendered pages
C14_Witness ==
  /\ LoadFailed
  /\ StartDir.exists
  /\ <<"1", "webp">> \in DOMAIN StartDir.files
  /\ <<"2", "webp">> \in DOMAIN StartDir.files


\* C15 (as claimed): the page_number of an emitted event equals the 1-based
\* number of the page it was emitted for, whatever the page count.
C15_NoWrap ==
  trace # <<>> =>
    trace[Len(trace)].payload.page_number =
      (IF pc = "Rendering" THEN page ELSE page - 1)


\* the rendered-page files of a cache directory
WebpIn(d) ==
  {n \in DOMAIN fs[d].files : Len(n) > 1 /\ n[Len(n)] = "webp" /\ Front(n) # <<"">>}

\* C16 (as claimed): between runs the rendered-page files of the cache
\* directory are exactly 1..k for some k, and a run on the cache-Complete
\* path for page count M finds the files 1..M.
C16_ContiguousPrefix ==
  /\ pc \in Terminal =>
       \A d \in CacheDirs : \E k \in 0..MaxPages : WebpIn(d) = NumberedFiles(k)
  /\ (pc = "Replaying" /\ cachePath = "Complete") =>
       NumberedFiles(page_count) \subseteq DOMAIN Dir.files


\* the run follows, on the same unchanged document, a run that returned an
\* error
AfterErrorRun ==
  /\ runs >= 2
  /\ prev.outcome = "Error"
  /\ prev.clean
  /\ prev.path = path
  /\ ~dirty

\* C17 (as claimed): the run after a run that returned an error can go
\* through without a failing step: the cached file it is about to replay is
\* there to be read, and when it is Done it has emitted the pages 1..M and
\* the cache holds exactly the rendered files 1..M.
C17_Recovery ==
  AfterErrorRun =>
    /\ (pc = "Replaying" /\ page <= page_count) =>
         <<ToString(page), "webp">> \in DOMAIN Dir.files
    /\ pc = "Done" =>
         /\ PageNumbers = [i \in 1..page_count |-> i]
         /\ WebpNow = NumberedFiles(page_count)


(* ------------------------------ Hero ----------------------------------- *)
\* bounds of the consumer: documents picked, pages of a picked document,
\* "image" events emitted and not yet handled by the listener
MaxSelects == 3
MaxUiPages == 2
MaxInFlight == 1

InvoicePdf == Path(TRUE, << <<"docs">>, <<"invoice", "pdf">> >>)
UiDocs == {ReportPdf, InvoicePdf}

\* the page counts of the two documents
UiPages(d) == IF d = ReportPdf THEN MaxUiPages ELSE 1

\* create_object_url(data): an object URL of a blob holding the bytes
create_object_url(data) == [blob |-> data]

ImageUrl(page_number, url) == [page_number |-> page_number, url |-> url]

\* the memo selected_page: the first image whose page_number is the current
\* page_number
selected_page(u) ==
  LET hits == {i \in 1..Len(u.images) :
                 u.images[i].page_number = u.page_number}
  IN  IF hits = {} THEN None
      ELSE Some(u.images[CHOOSE i \in hits : \A j \in hits : i <= j])

\* the component after Hero() has run: page 1, no image, listener not yet
\* registered, no document picked, no prepare_document run, nothing logged
\* (logged is the last message given to log_trace)
Hero ==
  [mounted |-> TRUE, listening |-> FALSE, crashed |-> FALSE,
   page_number |-> 1, images |-> <<>>, pending |-> FALSE, path |-> None,
   selects |-> 0, runs |-> <<>>, channel |-> <<>>, logged |-> None]

\* the consumer leaves the state of the pipeline alone
PipelineUnchanged ==
  UNCHANGED <<fs, docPages, pc, path, data_dir, page_count, page, cachePath,
              trace, result, runs, prev, startFs, dirty, running>>

\* the effect's task: listen("image", callback).await registers the listener
Listen ==
  /\ ui.mounted /\ ~ui.crashed /\ ~ui.listening
  /\ ui' = [ui EXCEPT !.listening = TRUE]
  /\ PipelineUnchanged

\* click on "Selecionar documento": select_document.dispatch(..) opens the
\* file picker (one picker at a time)
select_document ==
  /\ ui.mounted /\ ~ui.crashed /\ ~ui.pending
  /\ ui.selects < MaxSelects
  /\ ui' = [ui EXCEPT !.pending = TRUE]
  /\ PipelineUnchanged

\* the picker returns Ok(path): the images are cleared, the page is 1, and
\* the action's value becomes the path; the resource is keyed on that value
\* and invokes prepare_document when the value has changed
SelectOk(d) ==
  /\ ui.pending /\ ~ui.crashed
  /\ ui' = [ui EXCEPT !.pending = FALSE,
                      !.selects = @ + 1,
                      !.images = <<>>,
                      !.page_number = 1,
                      !.path = Some(d),
                      !.runs = IF ui.path = Some(d) THEN @
                               ELSE Append(@, [doc |-> d,
                                               page_count |-> UiPages(d),
                                               page |-> 1])]
  /\ PipelineUnchanged

\* the picker returns Err: todo!() panics
SelectErr ==
  /\ ui.pending /\ ~ui.crashed
  /\ ui' = [ui EXCEPT !.crashed = TRUE]
  /\ PipelineUnchanged

\* run r of prepare_document sends its next page: send_webp_image emits the
\* "image" event with the rendered file of that page
EmitImage(r) ==
  /\ r <= Len(ui.runs)
  /\ ui.runs[r].page <= ui.runs[r].page_count
  /\ Len(ui.channel) < MaxInFlight
  /\ LET run == ui.runs[r]
         dir == create_output_paths(run.doc).data_dir
         buffer == [src |-> PageArg(Display(run.doc), run.page - 1), run |-> r]
     IN  ui' = [ui EXCEPT
                  !.channel = Append(@, ImageLoaded(run.page,
                                                    join(dir, PageFile(run.page)),
                                                    buffer)),
                  !.runs[r].page = @ + 1]
  /\ PipelineUnchanged

\* the "image" event reaches the webview: the registered listener pushes an
\* ImageUrl; without a listener the event is lost
OnImage ==
  /\ ui.channel # <<>>
  /\ LET image == Head(ui.channel)
         url == create_object_url(image.data)
     IN  ui' = [ui EXCEPT
                  !.channel = Tail(@),
                  !.images = IF ui.listening /\ ~ui.crashed
                             THEN Append(@, ImageUrl(image.page_number, url))
                             ELSE @]
  /\ PipelineUnchanged

\* the page buttons are hidden while selected_page is None
ButtonsShown(u) == ~u.crashed /\ selected_page(u) # None

\* _next_page: page_number() < (images.len() - 1) as u16
CanNext(u) ==
  /\ ButtonsShown(u)
  /\ u.page_number < AsU16(Len(u.images) - 1)

\* _previous_page: page_number() > 1
CanPrevious(u) ==
  /\ ButtonsShown(u)
  /\ u.page_number > 1

\* format!("Page_number: {}", page_number())
PageMessage(n) == "Page_number: " \o ToString(n)

\* click on "Proxima pagina"
next_page ==
  /\ CanNext(ui)
  /\ ui' = [ui EXCEPT !.page_number = AsU16(@ + 1),
                      !.logged = Some(PageMessage(AsU16(ui.page_number + 1)))]
  /\ PipelineUnchanged

\* click on "Pagina anterior"
previous_page ==
  /\ CanPrevious(ui)
  /\ ui' = [ui EXCEPT !.page_number = AsU16(@ - 1),
                      !.logged = Some(PageMessage(AsU16(ui.page_number - 1)))]
  /\ PipelineUnchanged

InitUI ==
  /\ fs = [d \in CacheDirs |-> AbsentDir]
  /\ docPages = [d \in LoadableDocs |-> 0]
  /\ pc = "Idle"
  /\ path = RootPath
  /\ data_dir = RootPath
  /\ page_count = 0
  /\ page = 0
  /\ cachePath = "None"
  /\ trace = <<>>
  /\ result = NoResult
  /\ runs = 0
  /\ prev = [outcome |-> "Idle", path |-> RootPath, clean |-> FALSE]
  /\ startFs = fs
  /\ dirty = FALSE
  /\ running = {}
  /\ ui = Hero

NextUI ==
  \/ Listen
  \/ select_document
  \/ \E d \in UiDocs : SelectOk(d)
  \/ SelectErr
  \/ \E r \in 1..MaxSelects : EmitImage(r)
  \/ OnImage
  \/ next_page
  \/ previous_page

SpecUI == InitUI /\ [][NextUI]_vars

\* page p of document d, as rendered by the pipeline
PageOf(d, p) == PageArg(Display(d), p - 1)

\* C18 (as claimed): every image of the list is a page of the document
\* picked last, and no two images of the list have the same page_number.
C18_OnlyLatestDocument ==
  /\ \A i \in 1..Len(ui.images) :
       /\ ui.path # None
       /\ ui.images[i].url.blob.src = PageOf(ui.path[1], ui.images[i].page_number)
  /\ \A i, j \in 1..Len(ui.images) :
       i # j => ui.images[i].page_number # ui.images[j].page_number

\* the images received are the pages 1..n, n >= 1
ImagesOneToN ==
  /\ Len(ui.images) >= 1
  /\ \A i \in 1..Len(ui.images) : ui.images[i].page_number = i

\* the page numbers one click on a page button leads to, from those of S
NavStep(S, u) ==
  S \cup {AsU16(p + 1) : p \in {q \in S : CanNext([u EXCEPT !.page_number = q])}}
    \cup {AsU16(p - 1) : p \in {q \in S : CanPrevious([u EXCEPT !.page_number = q])}}

RECURSIVE NavReach(_, _)
\* the page numbers some sequence of clicks on the page buttons leads to
NavReach(S, u) ==
  LET T == NavStep(S, u)
  IN  IF T = S THEN S ELSE NavReach(T, u)

\* C19 (as claimed): when the images received are the pages 1..n, the
\* page numbers the page buttons lead to from the current page are exactly
\* 1..n: every page can be shown, the last one included, and no click
\* leaves 1..n.
C19_EveryPageReachable ==
  (ImagesOneToN /\ ~ui.crashed) =>
    NavReach({ui.page_number}, ui) = 1..Len(ui.images)

====
